---------------------------- MODULE Spec2Model ----------------------------
(***************************************************************************)
(* A model of two pieces of the rekall memory-forensics framework:         *)
(*                                                                         *)
(*   - the check_modules plugin (volatility/plugins/linux/check_modules.py)*)
(*     which walks the module kset, recovers the containing struct module  *)
(*     of every kobject and compares it with the lsmod module list;        *)
(*   - the text renderers of the base objects                              *)
(*     (rekall/plugins/renderers/base_objects.py).                         *)
(*                                                                         *)
(* Spec / FairSpec drive one run of CheckModules.render over a memory      *)
(* image drawn by Init.  RenderSpec draws one typed value and one renderer *)
(* configuration and applies the render operations to it.                  *)
(***************************************************************************)
EXTENDS Integers, Sequences, FiniteSets, TLC

VARIABLES
    \* ---- the memory image read by check_modules (never written) ----
    kset,       \* module_kset.list: sequence of kobjects [addr, name, refcount]
    modlist,    \* the module list walked by lsmod: sequence of module addresses
    modname,    \* struct module .name of the module at each address
    \* ---- one run of CheckModules.render ----
    pc,         \* position in render(): "start", "header", "loop", "done"
    idx,        \* number of kset entries the kset walk has consumed
    modules,    \* the local `modules` set of render()
    rows,       \* rows handed to renderer.table_row, in order
    headers,    \* number of table_header calls
    phaseLog,   \* phases of the reconciliation entered so far, in order
    \* ---- one typed value and one text renderer ----
    target,     \* the typed value handed to the renderer
    columns,    \* the `columns` keyword given to StructTextRenderer
    table,      \* StructTextRenderer.table: "unbuilt", "none" or "table"
    outcome     \* the last render call: [op, status, cell]

modvars == <<kset, modlist, modname, pc, idx, modules, rows, headers, phaseLog>>
rendervars == <<target, columns, table, outcome>>
vars == <<kset, modlist, modname, pc, idx, modules, rows, headers, phaseLog,
          target, columns, table, outcome>>

(***************************************************************************)
(* Bounds of the model.                                                    *)
(***************************************************************************)
MaxKset == 3        \* longest module kset

(***************************************************************************)
(* check_modules.py                                                        *)
(***************************************************************************)
\* "Real modules have at least 3 references in sysfs."
MinRefs == 3

ModAddrs == {1, 2, 3}
ModNames == {"mod_a", "mod_b"}
RefCounts == {MinRefs - 1, MinRefs, MinRefs + 1}

\* Offset of the mkobj member inside struct module (a profile constant):
\* the kobject of the module at address a lies at a + MkobjOffset.
MkobjOffset == 8

\* basic.container_of(kobj, "module", "mkobj")
container_of(kobj) == kobj.addr - MkobjOffset

\* The kobjects the image can hold for a given module-name table: the kobject
\* embedded in a module carries the module's name, or no name at all.
Kobjects(names) ==
    UNION { { [addr |-> a + MkobjOffset, name |-> n, refcount |-> r] :
                n \in {"", names[a]}, r \in RefCounts } : a \in ModAddrs }

\* A linked list visits every element once: no address occurs twice.
NoDupAddr(s) == \A i, j \in 1..Len(s) : i # j => s[i].addr # s[j].addr

SeqsUpTo(S, n) == UNION { [1..k -> S] : k \in 0..n }

\* get_kset_modules: `if kobj.name: yield kobj`
KsetYields(kobj) == kobj.name # ""

\* render: `if ref_count < 3: continue`
BelowMinRefsLoose(ref_count) == ref_count < MinRefs - 1
BelowMinRefs(ref_count) == ref_count < MinRefs

\* render: `container_module in modules`, decided by the container object
KnownByName(container_module, mods) ==
    \E m \in mods : modname[m] = modname[container_module]
Known(container_module, mods) == container_module \in mods

\* Append a phase to the log when it is entered from another phase.
Enter(log, ph) == IF log[Len(log)] = ph THEN log ELSE Append(log, ph)

(***************************************************************************)
(* base_objects.py: cells and helpers                                      *)
(***************************************************************************)
MaxFlagBits == 2    \* width of a Flags value in bits
MaxEnumValue == 3   \* largest Enumeration value
MaxAddr == 2        \* addresses of the memory a Pointer can point into
MaxPtrDepth == 2    \* deepest pointer-to-pointer type
MaxRel == 2         \* largest member offset inside a Struct
MaxCols == 2        \* longest column specification

\* text.Cell(value): a returned cell; an exception leaving the call.
Cell(value) == [status |-> "cell", cell |-> value]
Raise(exc) == [status |-> "raise", cell |-> exc]

Digit == <<"0", "1", "2", "3", "4", "5", "6", "7", "8", "9">>

\* unicode(n) / utils.SmartStr(n) / utils.SmartUnicode(n) of an integer.
RECURSIVE SmartStr(_)
SmartStr(n) ==
    IF n < 10 THEN Digit[n + 1] ELSE SmartStr(n \div 10) \o Digit[(n % 10) + 1]

\* Python's `a & b` on non-negative integers.
RECURSIVE BitAnd(_, _)
BitAnd(a, b) ==
    IF a = 0 \/ b = 0 THEN 0
    ELSE 2 * BitAnd(a \div 2, b \div 2) + (IF a % 2 = 1 /\ b % 2 = 1 THEN 1 ELSE 0)

RECURSIVE Pow2(_)
Pow2(n) == IF n = 0 THEN 1 ELSE 2 * Pow2(n - 1)

\* u', '.join(parts)
RECURSIVE CommaJoin(_)
CommaJoin(parts) ==
    IF parts = << >> THEN ""
    ELSE IF Len(parts) = 1 THEN parts[1]
    ELSE parts[1] \o ", " \o CommaJoin(Tail(parts))

\* Position of a string in Python's string order, for the names in use.
NameOrder == <<"EXEC", "READ", "WRITE", "a", "b", "c">>
Rank(name) == CHOOSE i \in 1..Len(NameOrder) : NameOrder[i] = name

(***************************************************************************)
(* BaseObjectTextRenderer and NoneObjectTextRenderer / NoneTextRenderer    *)
(***************************************************************************)
\* Null sentinels.  A NoneObject answers every call, v() included, and its
\* text is whatever the object model gives it; Python's None has no v().
NoneTexts == {"-", "Invalid Address"}
NoneTargets ==
    { [kind |-> "NoneObject", hasV |-> TRUE, vtext |-> t] : t \in NoneTexts }
    \cup { [kind |-> "NoneType", hasV |-> FALSE, vtext |-> "None"] }

\* BaseObjectTextRenderer.render_full: text.Cell(unicode(target.v()))
BaseObject_render_full(t) ==
    IF t.hasV THEN Cell(t.vtext) ELSE Raise("AttributeError")

\* BaseObjectTextRenderer.render_value: text.Cell(unicode(target.v()))
BaseObject_render_value(t) ==
    IF t.hasV THEN Cell(t.vtext) ELSE Raise("AttributeError")

\* text.TextObjectRenderer.render_compact: compact falls back to full.
TextObject_render_compact(t) == BaseObject_render_full(t)

\* text.TextObjectRenderer.render_row: calls render_<style>.
TextObject_render_row(t, style) ==
    CASE style = "full" -> BaseObject_render_full(t)
      [] style = "value" -> BaseObject_render_value(t)
      [] OTHER -> TextObject_render_compact(t)

\* NoneObjectTextRenderer.render_row(target, **_): text.Cell("-")
NoneObject_render_row(t, style) == Cell("-")

Styles == {"full", "compact", "value"}

(***************************************************************************)
(* FlagsTextRenderer                                                       *)
(***************************************************************************)
FlagNames == {"EXEC", "READ", "WRITE"}
FlagValues == 0..(Pow2(MaxFlagBits) - 1)
Masks == 1..(Pow2(MaxFlagBits) - 1)
MaskMaps == UNION { [names -> Masks] : names \in SUBSET FlagNames }
FlagsTargets ==
    { [kind |-> "Flags", v |-> v, maskmap |-> mm] :
        v \in FlagValues, mm \in MaskMaps }

\* sorted(names): the names in increasing order.
RECURSIVE SortedNames(_)
SortedNames(S) ==
    IF S = {} THEN << >>
    ELSE LET m == CHOOSE x \in S : \A y \in S : Rank(x) <= Rank(y)
         IN  <<m>> \o SortedNames(S \ {m})

\* `if value & v:`
FlagIsSetIfEqual(value, v) == value = v
FlagIsSet(value, v) == BitAnd(value, v) # 0

\* FlagsTextRenderer.render_full: the flags list handed to u', '.join.
Flags_flags(t) ==
    LET keys == SortedNames(DOMAIN t.maskmap)
        Set(k) == FlagIsSet(t.v, t.maskmap[k])
    IN  SelectSeq(keys, Set)

Flags_render_full(t) == Cell(CommaJoin(Flags_flags(t)))

\* FlagsTextRenderer.render_value: text.Cell(unicode(self.v())); the
\* renderer has no v().
Flags_render_value(t) == Raise("AttributeError")

\* Cell.lines of a one-line text: no line at all for the empty text.
Lines(text) == IF text = "" THEN << >> ELSE <<text>>

ElideAt == 40
\* FlagsTextRenderer.render_compact.  A first line longer than 40 characters
\* is cut: the cell then records the line and the 39 characters kept before
\* the ellipsis.
Flags_render_compact(t) ==
    LET lines == Lines(Flags_render_full(t).cell)
    IN  IF lines = << >> THEN Cell("-")
        ELSE IF Len(lines[1]) > ElideAt
             THEN Cell([elided |-> lines[1], keep |-> ElideAt - 1])
             ELSE Cell(lines[1])

(***************************************************************************)
(* EnumerationTextRenderer                                                 *)
(***************************************************************************)
\* An optional label: << >> is Python's None, <<s>> the string s.
None == << >>
Some(s) == <<s>>
EnumKeys == {"1", "2", "01"}
EnumLabels == {"RUNNING", "STOPPED", ""}
ChoiceMaps == UNION { [keys -> EnumLabels] : keys \in SUBSET EnumKeys }
EnumDefaults == {None, Some("OTHER"), Some("")}
EnumTargets ==
    { [kind |-> "Enumeration", v |-> v, hasV |-> TRUE, vtext |-> SmartStr(v),
       choices |-> c, default |-> d] :
        v \in 0..MaxEnumValue, c \in ChoiceMaps, d \in EnumDefaults }

\* dict.get(key, default)
DictGet(d, key, default) == IF key \in DOMAIN d THEN Some(d[key]) ELSE default

\* `x or y` on an optional label: None and the empty string are false.
OrElseNoneOnly(x, y) == IF x = None THEN y ELSE x[1]
OrElse(x, y) == IF x = None \/ x = Some("") THEN y ELSE x[1]

\* EnumerationTextRenderer.render_full (render_compact is the same function)
Enumeration_render_full(t) ==
    Cell(OrElse(DictGet(t.choices, SmartStr(t.v), t.default),
                "UNKNOWN (" \o SmartStr(t.v) \o ")"))

(***************************************************************************)
(* PointerTextRenderer, VoidTextRenderer, NativeTypeTextRenderer           *)
(***************************************************************************)
\* A pointer type is "Pointer" repeated, then the type pointed to at last.
RECURSIVE PointerType(_, _)
PointerType(depth, base) ==
    IF depth = 0 THEN <<base>> ELSE <<"Pointer">> \o PointerType(depth - 1, base)

PointerTypes ==
    { PointerType(d, b) : d \in 1..MaxPtrDepth, b \in {"NativeType", "Void"} }
Memories == [1..MaxAddr -> 0..MaxAddr]

\* The typed value of type ty whose content is v, read from memory mem.
Typed(ty, v, mem) ==
    [kind |-> Head(ty), type |-> ty, v |-> v, mem |-> mem,
     hasV |-> TRUE, vtext |-> SmartStr(v)]

PointerTargets ==
    { Typed(ty, a, m) : ty \in PointerTypes, a \in 0..MaxAddr, m \in Memories }

NoneObject == [kind |-> "NoneObject", hasV |-> TRUE, vtext |-> "Invalid Address"]

\* Pointer.deref(): the object pointed to, or a NoneObject when the address
\* is not mapped (NULL included).
deref(t) ==
    IF t.v \in DOMAIN t.mem THEN Typed(Tail(t.type), t.mem[t.v], t.mem)
    ELSE NoneObject

\* `target_obj == None`
IsNone(obj) == obj.kind \in {"NoneObject", "NoneType"}

\* renderer_module.ObjectRenderer.ForTarget: the renderer registered for the
\* most specific type of the object.
ForTarget(obj) ==
    CASE obj.kind = "Pointer" -> "PointerTextRenderer"
      [] obj.kind = "Void" -> "VoidTextRenderer"
      [] obj.kind = "NativeType" -> "NativeTypeTextRenderer"
      [] obj.kind = "NoneObject" -> "NoneObjectTextRenderer"

\* TextObjectRenderer.format_address
format_address(v) == "0x" \o SmartStr(v)

\* VoidTextRenderer.render_full
Void_render_full(t) == Cell("(void *) " \o format_address(t.v))

\* PointerTextRenderer without its render_full: the inherited one.
Pointer_render_full_inherited(t) == BaseObject_render_full(t)

RECURSIVE Pointer_render_full(_)
\* delegate_cls(...).render_full(target_obj)
render_full(cls, obj) ==
    CASE cls = "PointerTextRenderer" -> Pointer_render_full(obj)
      [] cls = "VoidTextRenderer" -> Void_render_full(obj)
      [] OTHER -> BaseObject_render_full(obj)

\* PointerTextRenderer.render_full
Pointer_render_full(t) ==
    LET target_obj == deref(t)
    IN  IF IsNone(target_obj) THEN Cell("-")
        ELSE render_full(ForTarget(target_obj), target_obj)

\* NativeTypeTextRenderer.render_address, reached from
\* PointerTextRenderer.render_value
Pointer_render_value(t) == Cell(format_address(t.v))

\* PointerTextRenderer.render_compact: "(%s *) %s"
Pointer_render_compact(t) ==
    Cell("(" \o t.type[2] \o " *) " \o format_address(t.v))

(***************************************************************************)
(* StructTextRenderer                                                      *)
(***************************************************************************)
MemberNames == {"a", "b", "c"}
\* A member at relative offset rel whose decoded value is the null sentinel
\* ("null"), an object with an offset of its own ("object"), or a plain
\* value that has no obj_offset ("plain").
Members == [rel : 0..MaxRel, form : {"null", "object", "plain"}]
MemberMaps == UNION { [names -> Members] : names \in SUBSET MemberNames }
StructBase == 16
StructTargets ==
    { [kind |-> "Struct", obj_offset |-> StructBase, members |-> mm] :
        mm \in MemberMaps }

\* A column specification: cname is "" when the column names no accessor.
Columns == { [name |-> "Column", cname |-> c] : c \in {"a", "b", ""} }
ColumnSpecs == SeqsUpTo(Columns, MaxCols)

\* getattr(target, k): the decoded member.
GetMember(t, k) ==
    IF k \notin DOMAIN t.members \/ t.members[k].form = "null"
    THEN [kind |-> "NoneObject", repr |-> "<None>"]
    ELSE IF t.members[k].form = "object"
    THEN [kind |-> "BaseObject", repr |-> "value of " \o k, hasOffset |-> TRUE,
          obj_offset |-> t.obj_offset + t.members[k].rel]
    ELSE [kind |-> "int", repr |-> "value of " \o k, hasOffset |-> FALSE]

\* target.m(k): the member as laid out in the struct, undecoded.
Struct_m(t, k) ==
    [kind |-> "BaseObject", repr |-> "raw " \o k, hasOffset |-> TRUE,
     obj_offset |-> t.obj_offset + t.members[k].rel]

\* The (offset, k, repr) tuple render_full appends for member k.
Field(t, k) ==
    LET got == GetMember(t, k)
        obj == IF IsNone(got) THEN Struct_m(t, k) ELSE got
    IN  [offset |-> (IF obj.hasOffset THEN obj.obj_offset ELSE t.obj_offset)
                        - t.obj_offset,
         k |-> k, v |-> obj.repr]

\* Python's order on the tuples: by offset, then by name.
FieldBefore(f, g) ==
    f.offset < g.offset \/ (f.offset = g.offset /\ Rank(f.k) <= Rank(g.k))

\* fields.sort()
RECURSIVE SortFields(_)
SortFields(S) ==
    IF S = {} THEN << >>
    ELSE LET f == CHOOSE x \in S : \A y \in S : FieldBefore(x, y)
         IN  <<f>> \o SortFields(S \ {f})

Max(S) == IF S = {} THEN 0 ELSE CHOOSE x \in S : \A y \in S : y <= x

FieldLines(fields, width_name) ==
    [i \in 1..Len(fields) |->
        [offset |-> fields[i].offset, k |-> fields[i].k,
         pad |-> width_name - Len(fields[i].k), v |-> fields[i].v]]

\* render_full leaving out the members whose value is the null sentinel.
Struct_render_full_skipping_none(t) ==
    LET width_name == Max({ Len(k) : k \in DOMAIN t.members })
        kept == { k \in DOMAIN t.members : ~IsNone(GetMember(t, k)) }
    IN  Cell([header |-> "repr",
              lines |-> FieldLines(SortFields({ Field(t, k) : k \in kept }),
                                   width_name)])

\* StructTextRenderer.render_full: the repr line, then one line per field.
Struct_render_full(t) ==
    LET width_name == Max({ Len(k) : k \in DOMAIN t.members })
        fields == SortFields({ Field(t, k) : k \in DOMAIN t.members })
    IN  Cell([header |-> "repr", lines |-> FieldLines(fields, width_name)])

\* StructTextRenderer.__init__: the table is built when columns are given;
\* neither __init__ nor the table looks at the columns' cname.
Struct_init(cols) == IF cols # << >> THEN "table" ELSE "none"

\* StructTextRenderer.render_compact without the cname check.
Struct_render_compact_unchecked(t, cols, tbl) ==
    IF tbl # "table" THEN Cell("repr")
    ELSE Cell([i \in 1..Len(cols) |-> GetMember(t, cols[i].cname).repr])

\* StructTextRenderer.render_compact
Struct_render_compact(t, cols, tbl) ==
    IF tbl # "table" THEN Cell("repr")
    ELSE IF \E i \in 1..Len(cols) : cols[i].cname = ""
         THEN Raise("ValueError")
         ELSE Cell([i \in 1..Len(cols) |-> GetMember(t, cols[i].cname).repr])

(***************************************************************************)
(* Initial states and actions                                              *)
(***************************************************************************)
RenderIdle ==
    /\ target = [kind |-> "none"]
    /\ columns = << >>
    /\ table = "unbuilt"
    /\ outcome = [op |-> "none", style |-> "none", status |-> "none", cell |-> << >>]

Init ==
    /\ modname \in [ModAddrs -> ModNames]
    /\ kset \in { s \in SeqsUpTo(Kobjects(modname), MaxKset) : NoDupAddr(s) }
    /\ modlist \in { s \in SeqsUpTo(ModAddrs, Cardinality(ModAddrs)) :
                        \A i \in 1..(Len(s) - 1) : s[i] < s[i + 1] }
    /\ pc = "start"
    /\ idx = 0
    /\ modules = {}
    /\ rows = << >>
    /\ headers = 0
    /\ phaseLog = <<"Init">>
    /\ RenderIdle

\* render, lines 67-72: renderer.table_header([...])
TableHeader ==
    /\ pc = "start"
    /\ headers' = headers + 1
    /\ pc' = "header"
    /\ UNCHANGED <<kset, modlist, modname, idx, modules, rows, phaseLog>>
    /\ UNCHANGED rendervars

\* render, lines 73-77: modules = set(lsmod.get_module_list())
GetModuleListSkipped ==
    /\ pc = "header"
    /\ pc' = "loop"
    /\ UNCHANGED <<kset, modlist, modname, idx, modules, rows, headers, phaseLog>>
    /\ UNCHANGED rendervars
GetModuleList ==
    /\ pc = "header"
    /\ modules' = { modlist[i] : i \in 1..Len(modlist) }
    /\ phaseLog' = Enter(phaseLog, "TraverseIndependent")
    /\ pc' = "loop"
    /\ UNCHANGED <<kset, modlist, modname, idx, rows, headers>>
    /\ UNCHANGED rendervars

\* render, lines 79-90: one turn of `for kobj in self.get_kset_modules()`
\* over the next kset entry.
KsetStep ==
    /\ pc = "loop"
    /\ idx < Len(kset)
    /\ idx' = idx + 1
    /\ LET kobj == kset[idx + 1]
           walked == Enter(phaseLog, "TraverseStructural")
       IN  IF KsetYields(kobj) /\ ~BelowMinRefs(kobj.refcount)
           THEN LET container_module == container_of(kobj)
                IN  /\ rows' = Append(rows,
                            [module_addr |-> container_module,
                             module |-> modname[container_module],
                             refcount |-> kobj.refcount,
                             known |-> Known(container_module, modules)])
                    /\ phaseLog' = walked \o <<"Reconcile", "Report">>
           ELSE /\ rows' = rows
                /\ phaseLog' = walked
    /\ UNCHANGED <<kset, modlist, modname, pc, modules, headers>>
    /\ UNCHANGED rendervars

\* render: the kset generator is exhausted and render returns.
KsetEnd ==
    /\ pc = "loop"
    /\ idx = Len(kset)
    /\ pc' = "done"
    /\ phaseLog' = Append(Enter(phaseLog, "TraverseStructural"), "Done")
    /\ UNCHANGED <<kset, modlist, modname, idx, modules, rows, headers>>
    /\ UNCHANGED rendervars

Next ==
    \/ TableHeader
    \/ GetModuleList
    \/ KsetStep
    \/ KsetEnd

Spec == Init /\ [][Next]_vars

\* render is straight-line code around a loop over a finite list: every
\* enabled step is eventually taken.
FairSpec == Init /\ [][Next]_vars /\ WF_vars(Next)

(***************************************************************************)
(* The renderers: one typed value, one renderer, any sequence of calls     *)
(***************************************************************************)
ModIdle ==
    /\ kset = << >>
    /\ modlist = << >>
    /\ modname = [a \in ModAddrs |-> "mod_a"]
    /\ pc = "idle"
    /\ idx = 0
    /\ modules = {}
    /\ rows = << >>
    /\ headers = 0
    /\ phaseLog = <<"Init">>

RenderInit ==
    /\ ModIdle
    /\ target \in NoneTargets \cup FlagsTargets \cup EnumTargets
                    \cup PointerTargets \cup StructTargets
    /\ columns \in IF target.kind = "Struct" THEN ColumnSpecs ELSE {<< >>}
    /\ table = "unbuilt"
    /\ outcome = [op |-> "none", style |-> "none", status |-> "none", cell |-> << >>]

Returns(op, style, r) ==
    /\ outcome' = [op |-> op, style |-> style, status |-> r.status, cell |-> r.cell]
    /\ UNCHANGED <<target, columns, table>>
    /\ UNCHANGED modvars

None_render_row ==
    /\ target.kind \in {"NoneObject", "NoneType"}
    /\ \E style \in Styles : Returns("row", style, NoneObject_render_row(target, style))

None_render_full ==
    /\ target.kind \in {"NoneObject", "NoneType"}
    /\ Returns("full", "full", BaseObject_render_full(target))

None_render_value ==
    /\ target.kind \in {"NoneObject", "NoneType"}
    /\ Returns("value", "value", BaseObject_render_value(target))

None_render_compact ==
    /\ target.kind \in {"NoneObject", "NoneType"}
    /\ Returns("compact", "compact", TextObject_render_compact(target))

FlagsRenderFull ==
    /\ target.kind = "Flags"
    /\ Returns("full", "full", Flags_render_full(target))

FlagsRenderValue ==
    /\ target.kind = "Flags"
    /\ Returns("value", "value", Flags_render_value(target))

FlagsRenderCompact ==
    /\ target.kind = "Flags"
    /\ Returns("compact", "compact", Flags_render_compact(target))

EnumerationRenderFull ==
    /\ target.kind = "Enumeration"
    /\ \E op \in {"full", "compact"} : Returns(op, op, Enumeration_render_full(target))

EnumerationRenderValue ==
    /\ target.kind = "Enumeration"
    /\ Returns("value", "value", BaseObject_render_value(target))

PointerRenderFull ==
    /\ target.kind = "Pointer"
    /\ Returns("full", "full", Pointer_render_full(target))

PointerRenderValue ==
    /\ target.kind = "Pointer"
    /\ Returns("value", "value", Pointer_render_value(target))

PointerRenderCompact ==
    /\ target.kind = "Pointer"
    /\ Returns("compact", "compact", Pointer_render_compact(target))

StructConstruct ==
    /\ target.kind = "Struct"
    /\ table = "unbuilt"
    /\ table' = Struct_init(columns)
    /\ UNCHANGED <<target, columns, outcome>>
    /\ UNCHANGED modvars

StructRenderFull ==
    /\ target.kind = "Struct"
    /\ table # "unbuilt"
    /\ Returns("full", "full", Struct_render_full(target))

StructRenderCompact ==
    /\ target.kind = "Struct"
    /\ table # "unbuilt"
    /\ Returns("compact", "compact", Struct_render_compact(target, columns, table))

RenderNext ==
    \/ None_render_row
    \/ None_render_full
    \/ None_render_value
    \/ None_render_compact
    \/ FlagsRenderFull
    \/ FlagsRenderValue
    \/ FlagsRenderCompact
    \/ EnumerationRenderFull
    \/ EnumerationRenderValue
    \/ PointerRenderFull
    \/ PointerRenderValue
    \/ PointerRenderCompact
    \/ StructConstruct
    \/ StructRenderFull
    \/ StructRenderCompact

RenderSpec == RenderInit /\ [][RenderNext]_vars

(***************************************************************************)
(* Claims about check_modules.                                             *)
(***************************************************************************)
Qualifies(kobj) == kobj.name # "" /\ kobj.refcount >= 3
Listed == { modlist[i] : i \in 1..Len(modlist) }

\* C1: render emits exactly one row per kset entry that has a non-empty name
\* and a reference count of at least 3, in kset traversal order, and no row
\* for any other entry; when render is done the whole kset has been walked.
C1_RowPerLiveKobject ==
    LET q == SelectSeq(SubSeq(kset, 1, idx), Qualifies)
    IN  /\ Len(rows) = Len(q)
        /\ \A i \in 1..Len(q) :
              /\ rows[i].module_addr + MkobjOffset = q[i].addr
              /\ rows[i].refcount = q[i].refcount
        /\ (pc = "done" => idx = Len(kset))

\* The scenario of the specification: an unnamed entry and an entry with too
\* few references are skipped, two rows come out in kset order.
C1_Witness ==
    /\ pc = "done"
    /\ Len(kset) = 3
    /\ \E i, j, k \in 1..3 :
          /\ j < k /\ i # j /\ i # k
          /\ (kset[i].name = "" \/ kset[i].refcount < 3)
          /\ Qualifies(kset[j]) /\ Qualifies(kset[k])
          /\ Len(rows) = 2
          /\ rows[1].module_addr + MkobjOffset = kset[j].addr
          /\ rows[2].module_addr + MkobjOffset = kset[k].addr

\* C2: in every emitted row, known is true iff the container module recovered
\* from the kobject is one of the modules of the module list, by container
\* object (address), not by name.
C2_KnownIffListed ==
    \A i \in 1..Len(rows) :
        rows[i].known <=> (rows[i].module_addr \in Listed)

\* A module unlinked from the list that shares its name with a listed module
\* is reported known = FALSE.
C2_Witness ==
    /\ pc = "done"
    /\ \E i \in 1..Len(rows) :
          /\ ~rows[i].known
          /\ rows[i].module_addr \notin Listed
          /\ \E m \in Listed : modname[m] = rows[i].module

SpecOrder ==
    <<"Init", "TraverseStructural", "TraverseIndependent", "Reconcile",
      "Report", "Done">>

\* C3 as stated: the phases are entered in the order Init, TraverseStructural,
\* TraverseIndependent, Reconcile, Report, Done, each at most once.
C3_SpecOrder ==
    /\ Len(phaseLog) <= Len(SpecOrder)
    /\ \E f \in [1..Len(phaseLog) -> 1..Len(SpecOrder)] :
          /\ \A i \in 1..Len(phaseLog) : SpecOrder[f[i]] = phaseLog[i]
          /\ \A i \in 1..(Len(phaseLog) - 1) : f[i] < f[i + 1]

CodeOrder ==
    { <<"Init", "TraverseIndependent">>,
      <<"TraverseIndependent", "TraverseStructural">>,
      <<"TraverseStructural", "Reconcile">>,
      <<"Reconcile", "Report">>,
      <<"Report", "TraverseStructural">>,
      <<"TraverseStructural", "Done">> }

C3_PhaseOrder ==
    /\ phaseLog[1] = "Init"
    /\ \A i \in 1..(Len(phaseLog) - 1) :
          <<phaseLog[i], phaseLog[i + 1]>> \in CodeOrder
    /\ (pc = "done" <=> phaseLog[Len(phaseLog)] = "Done")
    /\ (pc = "loop" => modules = Listed)

\* C3, amended: Init, then the independent walk of the module list exactly
\* once and in full, then the structural walk of the kset, which is resumed
\* after the Reconcile and Report of every reported entry; Done is final and
\* every run reaches it.
C3_PhasesInCodeOrder == [](C3_PhaseOrder) /\ <>[](pc = "done")

\* A run that reported two entries: the walk was resumed after a Report.
C3_Witness ==
    /\ pc = "done"
    /\ Len(rows) = 2
    /\ Len(modlist) >= 1
    /\ \E i \in 1..(Len(phaseLog) - 1) :
          phaseLog[i] = "Report" /\ phaseLog[i + 1] = "TraverseStructural"

(***************************************************************************)
(* Claims about the renderers.                                             *)
(***************************************************************************)
IsNullTarget == target.kind \in {"NoneObject", "NoneType"}

C5_NoRenderRaises ==
    (/\ target.kind \in {"Flags", "Enumeration", "Pointer", "Struct"}
     /\ outcome.op \in {"full", "compact", "value"})
        => outcome.status = "cell"

NamesNoAccessor(cols) == \E i \in 1..Len(cols) : cols[i].cname = ""

C7_FullListsEveryMember ==
    (target.kind = "Struct" /\ outcome.op = "full") =>
        LET lines == outcome.cell.lines
            mm == target.members
        IN  /\ outcome.status = "cell"
            /\ Len(lines) = Cardinality(DOMAIN mm)
            /\ \A k \in DOMAIN mm :
                  \E i \in 1..Len(lines) :
                      /\ lines[i].k = k
                      /\ \A j \in 1..Len(lines) : lines[j].k = k => j = i
                      /\ lines[i].offset =
                            (IF mm[k].form = "plain" THEN 0 ELSE mm[k].rel)
                      /\ (mm[k].form = "null" => lines[i].v = "raw " \o k)
                      /\ (mm[k].form # "null" => lines[i].v = "value of " \o k)
            /\ \A i \in 1..(Len(lines) - 1) :
                  lines[i].offset <= lines[i + 1].offset

C7_Witness ==
    /\ target.kind = "Struct"
    /\ DOMAIN target.members = MemberNames
    /\ target.members["a"] = [rel |-> 2, form |-> "null"]
    /\ target.members["b"] = [rel |-> 1, form |-> "object"]
    /\ target.members["c"] = [rel |-> 2, form |-> "plain"]
    /\ outcome.op = "full"
    /\ outcome.cell.lines[1].k = "c"
    /\ outcome.cell.lines[3].k = "a"
    /\ outcome.cell.lines[3].v = "raw a"

\* The object at the end of a chain of pointers, or the null sentinel when a
\* hop leads nowhere.
RECURSIVE ChainEnd(_, _, _)
ChainEnd(ty, v, mem) ==
    IF Head(ty) # "Pointer" THEN [kind |-> Head(ty), v |-> v]
    ELSE IF v \in 1..MaxAddr THEN ChainEnd(Tail(ty), mem[v], mem)
    ELSE [kind |-> "NoneObject", v |-> 0]

\* C8: the full render of a pointer is the full render that the renderer of
\* the dereferenced target gives for that target, through every pointer hop,
\* and is "-" when the target is the null sentinel.
C8_PointerDelegates ==
    (target.kind = "Pointer" /\ outcome.op = "full") =>
        LET end == ChainEnd(target.type, target.v, target.mem)
        IN  /\ outcome.status = "cell"
            /\ outcome.cell =
                  CASE end.kind = "NoneObject" -> "-"
                    [] end.kind = "Void" -> "(void *) 0x" \o Digit[end.v + 1]
                    [] end.kind = "NativeType" -> Digit[end.v + 1]

C8_Witness ==
    /\ target.kind = "Pointer"
    /\ target.type = <<"Pointer", "Pointer", "Void">>
    /\ target.v = 1
    /\ target.mem[1] = 2
    /\ target.mem[2] = 1
    /\ outcome.op = "full"
    /\ outcome.cell = "(void *) 0x1"

HasCommonBit(a, b) ==
    \E i \in 0..(MaxFlagBits - 1) :
        (a \div Pow2(i)) % 2 = 1 /\ (b \div Pow2(i)) % 2 = 1

\* C9: the full render of a bit-flags value is the comma-joined list of
\* exactly the names N of its mask map with (value & mask(N)) # 0, sorted by
\* name, each once; a bit without a name contributes nothing.
C9_FlagsFullListsSetNames ==
    (target.kind = "Flags" /\ outcome.op = "full") =>
        LET Named(n) == /\ n \in DOMAIN target.maskmap
                        /\ HasCommonBit(target.v, target.maskmap[n])
        IN  /\ outcome.status = "cell"
            /\ outcome.cell = CommaJoin(SelectSeq(NameOrder, Named))

C9_Witness ==
    /\ target.kind = "Flags"
    /\ target.v = 2
    /\ DOMAIN target.maskmap = FlagNames
    /\ target.maskmap["WRITE"] = 2
    /\ target.maskmap["READ"] = 1
    /\ target.maskmap["EXEC"] = 3
    /\ outcome.op = "full"
    /\ outcome.cell = "EXEC, WRITE"

Unknown(v) == "UNKNOWN (" \o Digit[v + 1] \o ")"
Matches == Digit[target.v + 1] \in DOMAIN target.choices

\* C10 as stated: the enumeration's full and compact render is the label of
\* the matching choice whenever one matches, otherwise the configured
\* fallback, and "UNKNOWN (<value>)" only when nothing matches and no
\* fallback is configured.
C10_LabelWheneverMatched ==
    (target.kind = "Enumeration" /\ outcome.op \in {"full", "compact"}) =>
        /\ (Matches => outcome.cell = target.choices[Digit[target.v + 1]])
        /\ (~Matches /\ target.default # None
                => outcome.cell = target.default[1])
        /\ (outcome.cell = Unknown(target.v)
                => ~Matches /\ target.default = None)

\* C10, amended: the render is the label of the matching choice when one
\* matches and its label is not empty; the fallback label when nothing
\* matches and a non-empty fallback is configured; "UNKNOWN (<value>)" in
\* every other case, an empty matching label and an empty fallback included.
C10_LabelUnlessEmpty ==
    (target.kind = "Enumeration" /\ outcome.op \in {"full", "compact"}) =>
        /\ outcome.status = "cell"
        /\ outcome.cell =
              IF Matches
              THEN IF target.choices[Digit[target.v + 1]] # ""
                   THEN target.choices[Digit[target.v + 1]]
                   ELSE Unknown(target.v)
              ELSE IF target.default # None /\ target.default # Some("")
                   THEN target.default[1]
                   ELSE Unknown(target.v)

C10_Witness ==
    /\ target.kind = "Enumeration"
    /\ target.v = 3
    /\ DOMAIN target.choices = {"1", "2"}
    /\ target.choices["1"] = "RUNNING"
    /\ target.choices["2"] = "STOPPED"
    /\ target.default = None
    /\ outcome.op = "full"
    /\ outcome.cell = "UNKNOWN (3)"

=============================================================================
